---- MODULE Spec2Model ----
(***************************************************************************)
(* A model of cmsscraper.py: the discovery pass that submits directory     *)
(* creations and enqueue checks to the loop's default executor, the        *)
(* download queue with its size gate, and the semaphore-bounded batch of   *)
(* download_file coroutines.  One behaviour is one or more consecutive     *)
(* runs of main() against the same remote tree and the same filesystem.    *)
(* Three further specifications over the same variables look inside the    *)
(* walk: FetchSpec (the tree fetches and their semaphore), WalkSpec (one   *)
(* section and its modules) and SanSpec (the names of directories and      *)
(* files).                                                                 *)
(***************************************************************************)
EXTENDS Integers, Sequences, FiniteSets, TLC

(***************************************************************************)
(* Bounds of the model.                                                    *)
(***************************************************************************)
\* Number of downloadable items the remote tree holds.
NumItems == 2

\* Permits of the semaphore process_download_queue creates.  The program
\* sets 25 (cmsscraper.py line 34); the model scales it down so that a
\* batch larger than the limit fits in the state space.
SEMAPHORE_COUNT == 1

(***************************************************************************)
(* Program constants.                                                      *)
(***************************************************************************)
\* 512 * 1024 * 1024, the ceiling add_to_download_queue compares with.
SizeCeiling == 536870912

\* The sentinel for "size unknown at enqueue time".
UnknownSize == -1

(***************************************************************************)
(* Directories.  BASE_DIR, and under it (full download only) one course    *)
(* directory, one section directory and one module directory.              *)
(***************************************************************************)
BASE_DIR == "BASE"

course_dir == "BASE/C"

course_section_dir == "BASE/C/S"

module_dir == "BASE/C/S/M"

AllDirs == {BASE_DIR, course_dir, course_section_dir, module_dir}

\* os.makedirs(path, exist_ok=True) creates the leaf and every missing
\* ancestor.
Ancestors(d) ==
  CASE d = BASE_DIR           -> {BASE_DIR}
    [] d = course_dir         -> {BASE_DIR, course_dir}
    [] d = course_section_dir -> {BASE_DIR, course_dir, course_section_dir}
    [] OTHER                  -> AllDirs

(***************************************************************************)
(* The remote tree.  An item is one downloadable file the walk finds:      *)
(*   content  - a content of a resource/folder module (known filesize),    *)
(*   link     - a same-origin anchor of a section summary (no name, -1),   *)
(*   handout  - the first content of a "handout" module (--handouts, -1).  *)
(* name is the sanitized file name (for a link: the file name the server   *)
(* gives in content-disposition), length the byte length the server        *)
(* serves, size the filesize the course-contents JSON declares.            *)
(***************************************************************************)
Names == {"a", "b"}

\* Declared sizes of module contents: the two sizes on either side of the
\* ceiling.
ContentSizes == {SizeCeiling - 1, SizeCeiling}

ContentShapes ==
  { [kind |-> "content", name |-> n, size |-> s, length |-> s] :
      n \in Names, s \in ContentSizes }

LinkShapes ==
  { [kind |-> "link", name |-> n, size |-> UnknownSize, length |-> 1] :
      n \in Names }

HandoutShapes ==
  { [kind |-> "handout", name |-> n, size |-> UnknownSize, length |-> 1] :
      n \in Names }

Shapes(m) == IF m = "handouts" THEN HandoutShapes
             ELSE ContentShapes \cup LinkShapes

\* A total order on shapes, used only to pick one representative of every
\* multiset of siblings (siblings have no order the program depends on).
Rank(s) ==
  (CASE s.kind = "content" -> 0 [] s.kind = "link" -> 100 [] OTHER -> 200)
  + (IF s.name = "a" THEN 0 ELSE 10)
  + (IF s.size = UnknownSize THEN 0 ELSE IF s.size < SizeCeiling THEN 1 ELSE 2)

Trees(m) ==
  { t \in [1..NumItems -> Shapes(m)] :
      \A i \in 1..(NumItems - 1) : Rank(t[i]) <= Rank(t[i + 1]) }

HandoutNames == { n \o "_HANDOUT" \o ".pdf" : n \in Names }

\* Every destination path a task of the model can have: (directory, name).
Paths ==
  ({module_dir, course_section_dir} \X Names) \cup ({BASE_DIR} \X HandoutNames)

(***************************************************************************)
(* State.                                                                  *)
(***************************************************************************)
VARIABLES
  mode,            \* "full" (queue_enroled_courses) or "handouts" (--handouts)
  tree,            \* the remote tree: item index -> item, the same in every run
  run,             \* which run of main() this is: "first" or "second"
  phase,           \* where main() is: "start", "discover", "gather",
                   \*   "download", "done", "raised"
  jobs,            \* calls handed to run_in_executor that have not finished
  dirs,            \* directories that exist on disk
  fs,              \* path -> [exists, size]: the regular files on disk
  download_queue,  \* queue.Queue of (file_url, file_dir, file_name, file_ext)
  tasks,           \* process_download_queue's list(download_queue.queue)
  co,              \* one download_file coroutine per element of tasks
  sem,             \* free permits of process_download_queue's semaphore
  accepted,        \* history: items whose enqueue passed both checks, this run
  firstRun,        \* history: what the first run left: "none", "clean",
                   \*   "partial" (a file shorter than declared), "failed"
  fetch,           \* the walk's tree-fetch coroutines and their semaphore
  walk,            \* one call of queue_course_section and what it did
  san              \* one name and the file names the program derives from it

\* The state of the walk's coroutines, which the specifications of the
\* download pipeline leave alone.
aux == <<fetch, walk, san>>

vars == <<mode, tree, run, phase, jobs, dirs, fs, download_queue, tasks, co,
          sem, accepted, firstRun, fetch, walk, san>>

NoFile == [exists |-> FALSE, size |-> 0]

File(n) == [exists |-> TRUE, size |-> n]

\* os.path.join(file_dir, file_name + file_ext)
os_path_join(file_dir, file_name) == <<file_dir, file_name>>

\* The arguments the walk passes to add_to_download_queue for item i.
\* file_url is the item's index: every item has its own URL.
EnqueueArgs(i) ==
  LET it == tree[i] IN
  CASE it.kind = "content" ->
         [url |-> i, dir |-> module_dir, name |-> it.name, ext |-> "",
          size |-> it.size]
    [] it.kind = "link" ->
         [url |-> i, dir |-> course_section_dir, name |-> "", ext |-> "",
          size |-> UnknownSize]
    [] OTHER ->
         [url |-> i, dir |-> BASE_DIR, name |-> it.name \o "_HANDOUT",
          ext |-> ".pdf", size |-> UnknownSize]

\* What download_queue.put receives.
Task(a) == [url |-> a.url, dir |-> a.dir, name |-> a.name, ext |-> a.ext]

process_StrictCeiling(q, files, a) ==
  LET path == os_path_join(a.dir, a.name \o a.ext) IN
  IF a.size # -1 /\ files[path].exists /\ files[path].size = a.size
    THEN q
  ELSE IF a.size > SizeCeiling
    THEN q
  ELSE Append(q, Task(a))

process_ExistsOnly(q, files, a) ==
  LET path == os_path_join(a.dir, a.name \o a.ext) IN
  IF a.size # -1 /\ files[path].exists
    THEN q
  ELSE IF a.size >= SizeCeiling
    THEN q
  ELSE Append(q, Task(a))

(***************************************************************************)
(* add_to_download_queue.process: the body the executor thread runs.       *)
(* The result is the new content of download_queue.                        *)
(***************************************************************************)
process(q, files, a) ==
  LET path == os_path_join(a.dir, a.name \o a.ext) IN
  IF a.size # -1 /\ files[path].exists /\ files[path].size = a.size
    THEN q
  ELSE IF a.size >= SizeCeiling
    THEN q
  ELSE Append(q, Task(a))

JobMakedirs(d, aw) == [op |-> "makedirs", dir |-> d, item |-> 0, awaited |-> aw]

JobEnqueue(i) == [op |-> "enqueue", dir |-> "", item |-> i, awaited |-> TRUE]

(***************************************************************************)
(* main() up to the gather of the walk's futures.                          *)
(***************************************************************************)
Init ==
  /\ mode \in {"full", "handouts"}
  /\ tree \in Trees(mode)
  /\ run = "first"
  /\ phase = "start"
  /\ jobs = {}
  /\ dirs = {}
  /\ fs = [p \in Paths |-> NoFile]
  /\ download_queue = <<>>
  /\ tasks = <<>>
  /\ co = <<>>
  /\ sem = SEMAPHORE_COUNT
  /\ accepted = {}
  /\ firstRun = "none"
  /\ fetch = "idle"
  /\ walk = "idle"
  /\ san = "idle"

\* main, line 120: async_makedirs(BASE_DIR); the future is dropped.
MainMakeBaseDir ==
  /\ phase = "start"
  /\ phase' = "discover"
  /\ jobs' = jobs \cup {JobMakedirs(BASE_DIR, FALSE)}
  /\ UNCHANGED <<aux, mode, tree, run, dirs, fs, download_queue, tasks, co, sem,
                 accepted, firstRun>>

\* The futures queue_enroled_courses returns: the directory of the course,
\* of the section and of the module, and one enqueue per content and per
\* summary link.
queue_enroled_courses ==
  { JobMakedirs(d, TRUE) : d \in {course_dir, course_section_dir, module_dir} }
  \cup { JobEnqueue(i) : i \in 1..NumItems }

\* The futures queue_handouts returns: one enqueue per handout, and no
\* directory creation.
queue_handouts == { JobEnqueue(i) : i \in 1..NumItems }

\* main, lines 156-159: the walk runs and hands its calls to the executor.
Discover ==
  /\ phase = "discover"
  /\ phase' = "gather"
  /\ jobs' = jobs \cup (IF mode = "handouts" THEN queue_handouts
                        ELSE queue_enroled_courses)
  /\ UNCHANGED <<aux, mode, tree, run, dirs, fs, download_queue, tasks, co, sem,
                 accepted, firstRun>>

\* The enqueue contract as the specification words it: a candidate is accepted
\* unless its known size is at the ceiling or above, or a file of exactly
\* its known size is at its destination.
Acceptable(files, a) ==
  /\ ~(a.size # UnknownSize /\ a.size >= SizeCeiling)
  /\ ~(/\ a.size # UnknownSize
       /\ files[os_path_join(a.dir, a.name \o a.ext)].exists
       /\ files[os_path_join(a.dir, a.name \o a.ext)].size = a.size)

\* An executor thread runs one submitted call to its end.  The calls run
\* on the pool's threads in any order and at any time after their
\* submission; download_queue.put is atomic (queue.Queue locks), and the
\* regular files process looks at do not change while the walk runs.
RunMakedirs(j) ==
  /\ j \in jobs
  /\ j.op = "makedirs"
  /\ jobs' = jobs \ {j}
  /\ dirs' = dirs \cup Ancestors(j.dir)
  /\ UNCHANGED <<aux, mode, tree, run, phase, fs, download_queue, tasks, co, sem,
                 accepted, firstRun>>

RunEnqueue(j) ==
  /\ j \in jobs
  /\ j.op = "enqueue"
  /\ jobs' = jobs \ {j}
  /\ download_queue' = process(download_queue, fs, EnqueueArgs(j.item))
  /\ accepted' = IF Acceptable(fs, EnqueueArgs(j.item))
                   THEN accepted \cup {j.item} ELSE accepted
  /\ UNCHANGED <<aux, mode, tree, run, phase, dirs, fs, tasks, co, sem, firstRun>>

(***************************************************************************)
(* process_download_queue and download_file.                               *)
(***************************************************************************)
\* A download_file coroutine: where it is, what it returned, why, and
\* (history) how many GETs it issued and whether its f.write completed.
NewCoroutine ==
  [pc |-> "start", ret |-> "none", why |-> "", attempts |-> 0, wrote |-> FALSE]

\* line 458-459: one coroutine per element of the snapshot of the queue.
SnapshotCoroutines(q) == [t \in 1..Len(q) |-> NewCoroutine]

GatherDone_NoWait == TRUE

\* main, lines 157/159: every future the walk returned has completed.
GatherDone == \A j \in jobs : ~j.awaited

\* main, lines 157-166: the gather returns; with a non-empty queue
\* process_download_queue snapshots it and starts the batch.
MainGather ==
  /\ phase = "gather"
  /\ GatherDone
  /\ IF Len(download_queue) > 0
       THEN /\ phase' = "download"
            /\ tasks' = download_queue
            /\ co' = SnapshotCoroutines(download_queue)
            /\ sem' = SEMAPHORE_COUNT
       ELSE /\ phase' = "done"
            /\ UNCHANGED <<tasks, co, sem>>
  /\ UNCHANGED <<aux, mode, tree, run, jobs, dirs, fs, download_queue, accepted,
                 firstRun>>

except_Reraise == "raise"

except_ReturnsTrue == "True"

\* lines 501-503: except BaseException ... return False.
except_BaseException == "False"

Finish(c, r, w) == [c EXCEPT !.pc = "done", !.ret = r, !.why = w]

\* The server's answer for a task's URL: the byte length it serves and the
\* file name of its content-disposition header.
ServedLength(t) == tree[tasks[t].url].length

ServedName(t) == tree[tasks[t].url].name

\* lines 484-490: file_name, taken from content-disposition when the task
\* has none, and the destination path.
DestName(t) ==
  (IF tasks[t].name = "" THEN ServedName(t) ELSE tasks[t].name) \o tasks[t].ext

DestPath(t) == os_path_join(tasks[t].dir, DestName(t))

\* A permit is free: asyncio.Semaphore.acquire returns without waiting.
CanAcquire_Always == TRUE

CanAcquire == sem > 0

\* line 479: async with sem, session.get(file_url): a permit is taken and
\* the GET is issued.
Acquire(t) ==
  /\ phase = "download"
  /\ co[t].pc = "start"
  /\ CanAcquire
  /\ sem' = sem - 1
  /\ co' = [co EXCEPT ![t].pc = "get", ![t].attempts = @ + 1]
  /\ UNCHANGED <<aux, mode, tree, run, phase, jobs, dirs, fs, download_queue,
                 tasks, accepted, firstRun>>

\* line 479: the GET raises (timeout, connection reset).
GetFails(t) ==
  /\ phase = "download"
  /\ co[t].pc = "get"
  /\ sem' = sem + 1
  /\ co' = [co EXCEPT ![t] = Finish(@, except_BaseException, "transient")]
  /\ UNCHANGED <<aux, mode, tree, run, phase, jobs, dirs, fs, download_queue,
                 tasks, accepted, firstRun>>

\* lines 480-498: the response arrives; the code runs without suspending up
\* to the await of the body.  ok: response.ok; cd: a content-disposition
\* header is present; cl: a content-length header is present; perm: the
\* open of the destination is permitted.
Respond(t, ok, cd, cl, perm) ==
  /\ phase = "download"
  /\ co[t].pc = "get"
  /\ IF tasks[t].name = "" /\ ~cd
       THEN \* lines 485-487: return False
            /\ co' = [co EXCEPT ![t] = Finish(@, "False", "")]
            /\ sem' = sem + 1
            /\ UNCHANGED fs
     ELSE IF ~cl
       THEN \* line 493: KeyError
            /\ co' = [co EXCEPT ![t] = Finish(@, except_BaseException, "")]
            /\ sem' = sem + 1
            /\ UNCHANGED fs
     ELSE IF tasks[t].dir \notin dirs
       THEN \* line 498: FileNotFoundError, the directory is not there
            /\ co' = [co EXCEPT ![t] = Finish(@, except_BaseException, "nodir")]
            /\ sem' = sem + 1
            /\ UNCHANGED fs
     ELSE IF ~perm
       THEN \* line 498: PermissionError
            /\ co' = [co EXCEPT ![t] = Finish(@, except_BaseException, "")]
            /\ sem' = sem + 1
            /\ UNCHANGED fs
     ELSE \* line 498: open(path, "wb+") creates or truncates the file
            /\ co' = [co EXCEPT ![t].pc = "read"]
            /\ fs' = [fs EXCEPT ![DestPath(t)] = File(0)]
            /\ UNCHANGED sem
  /\ UNCHANGED <<aux, mode, tree, run, phase, jobs, dirs, download_queue, tasks,
                 accepted, firstRun>>

\* line 499: await response.content.read() raises.
ReadFails(t) ==
  /\ phase = "download"
  /\ co[t].pc = "read"
  /\ sem' = sem + 1
  /\ co' = [co EXCEPT ![t] = Finish(@, except_BaseException, "transient")]
  /\ UNCHANGED <<aux, mode, tree, run, phase, jobs, dirs, fs, download_queue,
                 tasks, accepted, firstRun>>

\* lines 499-500: the body arrives, f.write writes it and the file is
\* closed: return True.
WriteBody(t) ==
  /\ phase = "download"
  /\ co[t].pc = "read"
  /\ fs' = [fs EXCEPT ![DestPath(t)] = File(ServedLength(t))]
  /\ sem' = sem + 1
  /\ co' = [co EXCEPT ![t] = [Finish(@, "True", "") EXCEPT !.wrote = TRUE]]
  /\ UNCHANGED <<aux, mode, tree, run, phase, jobs, dirs, download_queue, tasks,
                 accepted, firstRun>>

\* line 499: the body arrives and f.write (or the close) raises OSError
\* after k bytes reached the disk.
WriteFails(t, k) ==
  /\ phase = "download"
  /\ co[t].pc = "read"
  /\ k < ServedLength(t)
  /\ fs' = [fs EXCEPT ![DestPath(t)] = File(k)]
  /\ sem' = sem + 1
  /\ co' = [co EXCEPT ![t] = Finish(@, except_BaseException, "")]
  /\ UNCHANGED <<aux, mode, tree, run, phase, jobs, dirs, download_queue, tasks,
                 accepted, firstRun>>

\* line 460: gather returns the list of results once every coroutine has
\* returned; a coroutine that raises makes gather, and main, raise.
BatchReturns ==
  /\ phase = "download"
  /\ \/ \A t \in 1..Len(tasks) : co[t].pc = "done"
     \/ \E t \in 1..Len(tasks) : co[t].ret = "raise"
  /\ phase' = IF \E t \in 1..Len(tasks) : co[t].ret = "raise"
                THEN "raised" ELSE "done"
  /\ UNCHANGED <<aux, mode, tree, run, jobs, dirs, fs, download_queue, tasks, co,
                 sem, accepted, firstRun>>

\* What the finished run left, for the run that follows.
RunWasClean ==
  /\ \A t \in 1..Len(tasks) : co[t].ret = "True"
  /\ \A i \in accepted : \E t \in 1..Len(tasks) : tasks[t].url = i

\* Item i has a declared size and the file at its destination is shorter.
LeftShort(i) ==
  /\ EnqueueArgs(i).size # UnknownSize
  /\ fs[os_path_join(EnqueueArgs(i).dir, EnqueueArgs(i).name)].exists
  /\ fs[os_path_join(EnqueueArgs(i).dir, EnqueueArgs(i).name)].size
       < EnqueueArgs(i).size

\* The process ends (the executor's threads are joined at exit, so no
\* submitted call is left) and the program is started again: the module's
\* globals are fresh, the disk and the remote tree are as they were left.
RunAgain ==
  /\ phase = "done"
  /\ run = "first"
  /\ jobs = {}
  /\ run' = "second"
  /\ phase' = "start"
  /\ download_queue' = <<>>
  /\ tasks' = <<>>
  /\ co' = <<>>
  /\ sem' = SEMAPHORE_COUNT
  /\ accepted' = {}
  /\ firstRun' = IF RunWasClean THEN "clean"
                 ELSE IF \E i \in 1..NumItems : LeftShort(i) THEN "partial"
                 ELSE "failed"
  /\ UNCHANGED <<aux, mode, tree, jobs, dirs, fs>>

Next ==
  \/ MainMakeBaseDir
  \/ Discover
  \/ \E j \in jobs : RunMakedirs(j)
  \/ \E j \in jobs : RunEnqueue(j)
  \/ MainGather
  \/ \E t \in 1..Len(tasks) : Acquire(t)
  \/ \E t \in 1..Len(tasks) : GetFails(t)
  \/ \E t \in 1..Len(tasks) : \E ok, cd, cl, perm \in BOOLEAN :
       Respond(t, ok, cd, cl, perm)
  \/ \E t \in 1..Len(tasks) : ReadFails(t)
  \/ \E t \in 1..Len(tasks) : WriteBody(t)
  \/ \E t \in 1..Len(tasks) : \E k \in {0, 1} : WriteFails(t, k)
  \/ BatchReturns
  \/ RunAgain

Spec == Init /\ [][Next]_vars

\* Everything but the user starting the program again.  The executor's
\* threads run what is submitted, the event loop runs every coroutine that
\* can run, and every GET and body read ends (the session's ClientTimeout
\* is 100 s in total): a step that stays possible is eventually taken.
Progress ==
  \/ MainMakeBaseDir
  \/ Discover
  \/ \E j \in jobs : RunMakedirs(j)
  \/ \E j \in jobs : RunEnqueue(j)
  \/ MainGather
  \/ \E t \in 1..Len(tasks) : Acquire(t)
  \/ \E t \in 1..Len(tasks) : GetFails(t)
  \/ \E t \in 1..Len(tasks) : \E ok, cd, cl, perm \in BOOLEAN :
       Respond(t, ok, cd, cl, perm)
  \/ \E t \in 1..Len(tasks) : ReadFails(t)
  \/ \E t \in 1..Len(tasks) : WriteBody(t)
  \/ \E t \in 1..Len(tasks) : \E k \in {0, 1} : WriteFails(t, k)
  \/ BatchReturns

FairSpec == Spec /\ WF_vars(Progress)

(***************************************************************************)
(* Properties.                                                             *)
(***************************************************************************)
TaskIds == 1..Len(tasks)

\* A transfer is open from the GET being issued until the body is written
\* or the transfer is given up.
OpenTransfers == { t \in TaskIds : co[t].pc \in {"get", "read"} }

DeclaredSize(t) == tree[tasks[t].url].size

\* C1: during process_download_queue, with more tasks queued than the
\* semaphore has permits, at no instant are more than SEMAPHORE_COUNT
\* transfers open.
C1_TransfersBounded == Cardinality(OpenTransfers) <= SEMAPHORE_COUNT

\* A batch larger than the limit, the limit reached, and a task held back.
C1_Witness ==
  /\ phase = "download"
  /\ Len(tasks) > SEMAPHORE_COUNT
  /\ Cardinality(OpenTransfers) = SEMAPHORE_COUNT
  /\ \E t \in TaskIds : co[t].pc = "start"

\* C2: in every run mode, the directory that will contain a task's output
\* exists before the write for that task starts: no download_file reaches
\* open(path) while the directory of path is still missing, and a file that
\* is open for writing lies in a directory that exists.
C2_DirectoryExistsBeforeWrite ==
  \A t \in TaskIds :
    /\ co[t].why # "nodir"
    /\ co[t].pc = "read" => tasks[t].dir \in dirs

\* No two items of the tree have the same destination path.
DistinctDestinations ==
  \A i, k \in 1..NumItems :
    i # k => \/ EnqueueArgs(i).dir # EnqueueArgs(k).dir
             \/ tree[i].name # tree[k].name

\* C3: idempotence: a second run against the unchanged remote tree and
\* the filesystem a successful first run left writes no file, whatever the
\* kind of task (known declared size, or unknown size -1).
C3_SecondRunWritesNothing ==
  [][(run = "second" /\ firstRun = "clean" /\ DistinctDestinations)
       => fs' = fs]_vars

\* C4: a download that fails transiently is submitted again: a task
\* reported failed after a transient failure has been attempted more than
\* once (the first attempt and at least one retry).
C4_TransientFailureRetried ==
  \A t \in TaskIds :
    (co[t].pc = "done" /\ co[t].why = "transient") => co[t].attempts >= 2

QueuedUrls == { download_queue[k].url : k \in 1..Len(download_queue) }

ArgsPath(a) == os_path_join(a.dir, a.name \o a.ext)

\* The enqueue of item i has run in this run of main().
EnqueueRan(i) == phase = "gather" /\ JobEnqueue(i) \notin jobs

\* C5: a candidate whose known declared size is 512 MiB or more is never
\* put on download_queue and never handed to download_file, whatever is on
\* disk; 512 MiB exactly is rejected, and 512 MiB - 1 is queued unless a
\* file of that very size is already at its destination.
C5_OversizeNeverQueued ==
  /\ \A i \in QueuedUrls : tree[i].size < SizeCeiling
  /\ \A t \in TaskIds : DeclaredSize(t) < SizeCeiling
  /\ \A i \in 1..NumItems :
       (/\ EnqueueRan(i)
        /\ tree[i].size = SizeCeiling - 1
        /\ fs[ArgsPath(EnqueueArgs(i))] # File(SizeCeiling - 1))
       => i \in QueuedUrls

\* Both sides of the ceiling have been enqueued: the candidate of exactly
\* 512 MiB was dropped, the one a byte smaller is in the queue.
C5_Witness ==
  \E i, k \in 1..NumItems :
    /\ EnqueueRan(i) /\ tree[i].size = SizeCeiling /\ i \notin QueuedUrls
    /\ EnqueueRan(k) /\ tree[k].size = SizeCeiling - 1 /\ k \in QueuedUrls

\* C6: an enqueue with a known declared size s leaves download_queue
\* unchanged when a file of exactly s bytes is at the destination, and
\* appends the task when there is no file there or its length is not s
\* (and s is under the ceiling).
C6_KnownSizeGate ==
  [][\A j \in jobs :
       (j.op = "enqueue" /\ j \notin jobs'
        /\ EnqueueArgs(j.item).size # UnknownSize)
       => LET a == EnqueueArgs(j.item) IN
          /\ fs[ArgsPath(a)] = File(a.size)
               => download_queue' = download_queue
          /\ (fs[ArgsPath(a)] # File(a.size) /\ a.size < SizeCeiling)
               => download_queue' = Append(download_queue, Task(a))]_vars

\* In a second run one candidate was dropped because its file is there in
\* full, and another was queued again over a file of another length.
C6_Witness ==
  \E i, k \in 1..NumItems :
    /\ tree[i].size # UnknownSize /\ tree[k].size # UnknownSize
    /\ EnqueueRan(i) /\ EnqueueRan(k)
    /\ fs[ArgsPath(EnqueueArgs(i))] = File(tree[i].size)
    /\ i \notin QueuedUrls
    /\ fs[ArgsPath(EnqueueArgs(k))].exists
    /\ fs[ArgsPath(EnqueueArgs(k))].size # tree[k].size
    /\ k \in QueuedUrls

\* C7: at download time the skip-if-exists decision is made again with the
\* response's content-length: a task enqueued with unknown size whose
\* destination already holds a file of the served length is not written
\* and is reported as not downloaded.
C7_SkipRevalidatedAtDownload ==
  [][\A t \in TaskIds :
       (/\ DistinctDestinations
        /\ co[t].pc = "get"
        /\ DeclaredSize(t) = UnknownSize
        /\ fs[DestPath(t)] = File(ServedLength(t))
        /\ co'[t].pc # "get")
       => (co'[t].ret = "False" /\ fs' = fs)]_vars

Failed(t) == co[t].pc = "done" /\ co[t].ret # "True"

AllReturned == \A t \in TaskIds : co[t].pc = "done" /\ co[t].attempts = 1

\* C8: task-level failures are isolated: process_download_queue never
\* raises, and once a download has failed (network error, missing
\* content-disposition or content-length, error on open or write) every
\* task of the batch is still attempted and reaches its own outcome.
C8_FailuresIsolated ==
  /\ [](phase # "raised")
  /\ [](\A t \in TaskIds : co[t].ret \in {"none", "True", "False"})
  /\ (phase = "download" /\ \E t \in TaskIds : Failed(t))
       ~> (phase = "done" /\ AllReturned)

\* A batch that is over, in which one task failed and another, attempted
\* after the failure was known, was downloaded.
C8_Witness ==
  /\ phase = "done"
  /\ \E t, u \in TaskIds : Failed(t) /\ co[u].ret = "True"

\* C9: every batch ends, with exactly one result per queued task, True
\* or False; a result, once given, does not change; a task reported True
\* has had its body written to its destination, one reported False has not.
C9_OneOutcomePerTask ==
  /\ (phase = "download") ~> (phase = "done")
  /\ [](phase = "done" =>
          /\ Len(co) = Len(tasks) /\ Len(tasks) = Len(download_queue)
          /\ \A t \in TaskIds :
               /\ co[t].pc = "done"
               /\ co[t].ret \in {"True", "False"}
               /\ co[t].ret = "True" <=> co[t].wrote)
  /\ [](\A t \in TaskIds : co[t].ret = "True" => fs[DestPath(t)].exists)
  /\ [][\A t \in TaskIds :
          (phase' = phase /\ co[t].pc = "done") => co'[t] = co[t]]_vars

\* A batch that is over with both results: a file written, a task failed.
C9_Witness ==
  /\ phase = "done"
  /\ Len(tasks) = NumItems
  /\ \E t, u \in TaskIds :
       /\ co[t].ret = "True" /\ co[t].wrote /\ fs[DestPath(t)].exists
       /\ co[u].ret = "False" /\ ~co[u].wrote

AcceptedTasks == { Task(EnqueueArgs(i)) : i \in accepted }

Range(q) == { q[k] : k \in 1..Len(q) }

\* C10: every task a concurrent enqueue accepted is dispatched exactly
\* once: no put is lost, and process_download_queue takes its snapshot
\* only when every enqueue of the walk has finished, so the tasks handed to
\* download_file are exactly the accepted ones, each once.
C10_AcceptedDispatchedOnce ==
  /\ Range(download_queue) = AcceptedTasks
  /\ Len(download_queue) = Cardinality(accepted)
  /\ phase \in {"download", "done"} =>
       /\ \A j \in jobs : j.op # "enqueue"
       /\ Range(tasks) = AcceptedTasks
       /\ Len(tasks) = Cardinality(accepted)
       /\ Len(co) = Len(tasks)
       /\ \A t \in TaskIds : co[t].attempts <= 1
  /\ (phase = "done" /\ tasks # <<>>) => \A t \in TaskIds : co[t].attempts = 1

\* A finished batch: of the enqueues of the walk some were dropped and the
\* others were accepted, and every accepted task was dispatched once.
C10_Witness ==
  /\ phase = "done"
  /\ accepted # {}
  /\ Cardinality(accepted) < NumItems
  /\ Len(tasks) = Cardinality(accepted)
  /\ \A t \in TaskIds : co[t].attempts = 1

\* The destination path of a queued task: file_dir/file_name+file_ext.
TaskPath(t) == os_path_join(t.dir, t.name \o t.ext)

\* C11: no two tasks in download_queue have the same destination path:
\* of the candidates the walk enqueues for one path (two contents of a
\* module with the same name, named at enqueue time) at most one is
\* accepted.
C11_NoDuplicateDestinations ==
  \A k, l \in 1..Len(download_queue) :
    (k # l /\ download_queue[k].name # "")
      => TaskPath(download_queue[k]) # TaskPath(download_queue[l])

\* The items whose file download_file is to fetch in full: a declared size
\* below the ceiling.
Sized == { i \in 1..NumItems :
             /\ EnqueueArgs(i).size # UnknownSize
             /\ EnqueueArgs(i).size < SizeCeiling }

\* C18: partial-failure recovery: when the first run left a file shorter
\* than its declared size, the second run's enqueue check sees the
\* mismatch and queues the task again, and when every download of that run
\* has returned True the file at the destination has the declared length.
C18_PartialFileRecovered ==
  (run = "second" /\ firstRun = "partial") =>
    /\ \A i \in Sized : (EnqueueRan(i) /\ LeftShort(i)) => i \in QueuedUrls
    /\ (phase = "done" /\ DistinctDestinations
          /\ \A t \in TaskIds : co[t].ret = "True")
         => \A i \in Sized :
              fs[ArgsPath(EnqueueArgs(i))] = File(EnqueueArgs(i).size)

\* A second run that found a short file, downloaded it again and ended
\* with every task successful and the file in full.
C18_Witness ==
  /\ run = "second" /\ firstRun = "partial"
  /\ phase = "done" /\ DistinctDestinations
  /\ tasks # <<>>
  /\ \A t \in TaskIds : co[t].ret = "True" /\ co[t].wrote
  /\ Sized # {}
  /\ \A i \in Sized : fs[ArgsPath(EnqueueArgs(i))] = File(EnqueueArgs(i).size)

(***************************************************************************)
(* The tree fetches of the walk: one process coroutine per enrolled course *)
(* (queue_enroled_courses.process or queue_handouts.process) and one       *)
(* queue_module coroutine per forum module, all on the one event loop.     *)
(***************************************************************************)
\* Number of enrolled courses whose name matches COURSE_NAME_REGEX.
NumCourses == 2

Courses == 1..NumCourses

\* The variables of the download pipeline, which the walk's coroutines do
\* not touch.
pipeline == <<tree, run, phase, jobs, dirs, fs, download_queue, tasks, co,
              sem, accepted, firstRun>>

\* main() has not reached process_download_queue.
PipelineIdle ==
  /\ tree = <<>>
  /\ run = "first"
  /\ phase = "discover"
  /\ jobs = {}
  /\ dirs = {}
  /\ fs = <<>>
  /\ download_queue = <<>>
  /\ tasks = <<>>
  /\ co = <<>>
  /\ sem = SEMAPHORE_COUNT
  /\ accepted = {}
  /\ firstRun = "none"

\* The coroutines as gather schedules them: every course is at the start
\* of process, no forum coroutine exists yet, and the semaphore of
\* queue_enroled_courses (line 202) has all its permits.  hasForum is the
\* remote tree: whether the course holds a forum module.
FetchInit ==
  /\ PipelineIdle
  /\ mode \in {"full", "handouts"}
  /\ fetch \in { [hasForum |-> h,
                  course |-> [c \in Courses |-> "start"],
                  forum |-> [c \in Courses |-> "none"],
                  sem |-> SEMAPHORE_COUNT] : h \in [Courses -> BOOLEAN] }
  /\ walk = "idle"
  /\ san = "idle"

\* queue_enroled_courses.process, lines 214-215: async with sem, then the
\* course-contents GET is issued.
CourseAcquire(c) ==
  /\ mode = "full"
  /\ fetch.course[c] = "start"
  /\ fetch.sem > 0
  /\ fetch' = [fetch EXCEPT !.course[c] = "get", !.sem = @ - 1]
  /\ UNCHANGED <<mode, walk, san, pipeline>>

\* lines 214-223 with the permit kept after the GET has returned: the
\* sections are walked inside the async with block.
CourseResponse_KeepsPermit(c) ==
  /\ mode = "full"
  /\ fetch.course[c] = "get"
  /\ fetch' = [fetch EXCEPT
                 !.course[c] = "gather",
                 !.forum[c] = IF fetch.hasForum[c] THEN "start" ELSE "none"]
  /\ UNCHANGED <<mode, walk, san, pipeline>>

\* The GET returns and the async with block is left; the sections are
\* walked up to the first await of every queue_module: a forum module
\* stops at its own async with sem (line 296).
CourseResponse(c) ==
  /\ mode = "full"
  /\ fetch.course[c] = "get"
  /\ fetch' = [fetch EXCEPT
                 !.course[c] = "gather",
                 !.forum[c] = IF fetch.hasForum[c] THEN "start" ELSE "none",
                 !.sem = @ + 1]
  /\ UNCHANGED <<mode, walk, san, pipeline>>

\* session.get raises (connection error, timeout): the async with block
\* is left by the exception, which releases the permit, and process raises.
CourseGetRaises(c) ==
  /\ mode = "full"
  /\ fetch.course[c] = "get"
  /\ fetch' = [fetch EXCEPT !.course[c] = "raised", !.sem = @ + 1]
  /\ UNCHANGED <<mode, walk, san, pipeline>>

\* queue_module, lines 296-297: async with sem, then the forum GET.
ForumAcquire(c) ==
  /\ fetch.forum[c] = "start"
  /\ fetch.sem > 0
  /\ fetch' = [fetch EXCEPT !.forum[c] = "get", !.sem = @ - 1]
  /\ UNCHANGED <<mode, walk, san, pipeline>>

ForumResponse(c) ==
  /\ fetch.forum[c] = "get"
  /\ fetch' = [fetch EXCEPT !.forum[c] = "done", !.sem = @ + 1]
  /\ UNCHANGED <<mode, walk, san, pipeline>>

\* lines 221-226: the gather of the sections' coroutines returns.
CourseGatherReturns(c) ==
  /\ fetch.course[c] = "gather"
  /\ fetch.forum[c] \in {"none", "done"}
  /\ fetch' = [fetch EXCEPT !.course[c] = "done"]
  /\ UNCHANGED <<mode, walk, san, pipeline>>

\* queue_handouts.process, line 338: the course-contents GET is issued
\* with no semaphore around it.
HandoutGet(c) ==
  /\ mode = "handouts"
  /\ fetch.course[c] = "start"
  /\ fetch' = [fetch EXCEPT !.course[c] = "get"]
  /\ UNCHANGED <<mode, walk, san, pipeline>>

\* lines 339-355: the response is read and the sections are searched for
\* the handout; there is no further request.
HandoutResponse(c) ==
  /\ mode = "handouts"
  /\ fetch.course[c] = "get"
  /\ fetch' = [fetch EXCEPT !.course[c] = "done"]
  /\ UNCHANGED <<mode, walk, san, pipeline>>

FetchNext ==
  \/ \E c \in Courses : CourseAcquire(c)
  \/ \E c \in Courses : CourseResponse(c)
  \/ \E c \in Courses : CourseGetRaises(c)
  \/ \E c \in Courses : ForumAcquire(c)
  \/ \E c \in Courses : ForumResponse(c)
  \/ \E c \in Courses : CourseGatherReturns(c)
  \/ \E c \in Courses : HandoutGet(c)
  \/ \E c \in Courses : HandoutResponse(c)

FetchSpec == FetchInit /\ [][FetchNext]_vars

\* The tree-fetch requests in flight: course-contents GETs and forum GETs.
FetchesInFlight ==
  Cardinality({ c \in Courses : fetch.course[c] = "get" })
  + Cardinality({ c \in Courses : fetch.forum[c] = "get" })

\* C19: during discovery, in the full walk and in the handouts walk, at
\* most SEMAPHORE_COUNT tree-fetch requests (course-contents and forum
\* GETs together) are in flight at any instant.
C19_TreeFetchesBounded == FetchesInFlight <= SEMAPHORE_COUNT

(***************************************************************************)
(* queue_course_section and queue_module on one section of a course: the   *)
(* directories they create and the candidates they hand to                 *)
(* add_to_download_queue.  Names are left out here; the file names are     *)
(* modelled with the sanitizer below.                                      *)
(***************************************************************************)
\* Number of modules of the section.
NumModules == 2

\* Most contents of a module, discussions of a forum, attachments of a
\* discussion.
MaxChildren == 2

\* course_section["summary"]: "" (empty), HTML without an anchor, one
\* anchor without href, one anchor to another host, one anchor to
\* WEB_SERVER.
SummaryKinds == {"empty", "noanchor", "nohref", "offorigin", "link"}

\* A module of the course-contents JSON.  contents: the length of the
\* "contents" list, -1 when the key is absent.  For a forum: what the
\* discussions request answers ("notok", "exception", "ok"), the number
\* of discussions, what every discussion holds under the key "attachment"
\* ("absent": no such key, "flag": a scalar, "list": a list) and the length
\* of its "attachments" list.
Module(mn, k, r, nd, at, na) ==
  [modname |-> mn, contents |-> k, response |-> r, ndisc |-> nd,
   attachment |-> at, natt |-> na]

ModuleShapes ==
  { Module(mn, k, "", 0, "", 0) :
      mn \in {"resource", "folder"}, k \in -1..MaxChildren }
  \cup { Module("page", -1, "", 0, "", 0) }
  \cup { Module("forum", -1, r, 0, "", 0) : r \in {"notok", "exception", "ok"} }
  \cup { Module("forum", -1, "ok", nd, at, na) :
           nd \in 1..MaxChildren, at \in {"absent", "flag", "list"},
           na \in 0..MaxChildren }

\* A total order on module shapes, used only to pick one representative of
\* every multiset of sibling modules.
ModuleRank(m) ==
  (CASE m.modname = "resource" -> 0 [] m.modname = "folder" -> 1
     [] m.modname = "page" -> 2 [] OTHER -> 3) * 10000
  + (m.contents + 1) * 1000
  + (CASE m.response = "notok" -> 1 [] m.response = "exception" -> 2
       [] m.response = "ok" -> 3 [] OTHER -> 0) * 1000
  + m.ndisc * 100
  + (CASE m.attachment = "absent" -> 1 [] m.attachment = "flag" -> 2
       [] m.attachment = "list" -> 3 [] OTHER -> 0) * 10
  + m.natt

\* course_section: its summary and its "modules" list (hasModules FALSE:
\* the key is absent).
SectionShapes ==
  { [summary |-> s, hasModules |-> TRUE, modules |-> ms] :
      s \in SummaryKinds,
      ms \in { f \in [1..NumModules -> ModuleShapes] :
                 \A i \in 1..(NumModules - 1) :
                   ModuleRank(f[i]) <= ModuleRank(f[i + 1]) } }
  \cup { [summary |-> s, hasModules |-> FALSE, modules |-> <<>>] :
           s \in SummaryKinds }

ModuleIds == 1..NumModules

\* Identifiers of what the walk produces.  A directory: <<0>> the section's,
\* <<m>> module m's, <<m, d>> that of discussion d of forum m.  A candidate
\* handed to add_to_download_queue: <<0, 0, 1>> the summary's link,
\* <<m, 0, c>> content c of module m, <<m, d, a>> attachment a of
\* discussion d of forum m.
SectionDir == <<0>>

SummaryLink == <<0, 0, 1>>

\* queue_course_section is called: nothing is created yet.
WalkInit ==
  /\ PipelineIdle
  /\ mode = "full"
  /\ fetch = "idle"
  /\ san = "idle"
  /\ walk \in { [section |-> s, sec |-> "start",
                 mod |-> [m \in ModuleIds |-> "new"],
                 made |-> {}, queued |-> {}] : s \in SectionShapes }

\* lines 248-252: a summary that is not empty and holds no anchor makes
\* queue_course_section return before the modules are looked at.
ReturnsOnNoAnchors(s) == s.summary = "noanchor"

\* lines 241-271, up to the gather: the section's directory, the summary's
\* links, and one queue_module coroutine per module.
SectionStart ==
  /\ walk.sec = "start"
  /\ LET s == walk.section
         links == IF s.summary = "link" THEN {SummaryLink} ELSE {}
     IN walk' = [walk EXCEPT
                   !.made = @ \cup {SectionDir},
                   !.queued = IF ReturnsOnNoAnchors(s) THEN @ ELSE @ \cup links,
                   !.sec = IF ReturnsOnNoAnchors(s) \/ ~s.hasModules
                             THEN "returned" ELSE "gather"]
  /\ UNCHANGED <<mode, fetch, san, pipeline>>

\* lines 281-292: module["contents"] raises KeyError when the key is
\* absent; otherwise one candidate per content.
resource_branch(m, md) ==
  IF md.contents = -1
    THEN [pc |-> "raised", made |-> {}, queued |-> {}]
    ELSE [pc |-> "returned", made |-> {},
          queued |-> { <<m, 0, c>> : c \in 1..md.contents }]

\* lines 305-316: one directory per discussion; forum_discussion
\* ["attachment"] raises KeyError when the key is absent, and its
\* attachments are enqueued only when the value under that key is a list.
\* The directories of the discussions before the one that raises are
\* created; every discussion of the model has the same shape, so the first
\* one raises.
discussions_loop(m, md) ==
  CASE md.ndisc = 0 -> [pc |-> "returned", made |-> {}, queued |-> {}]
    [] md.ndisc > 0 /\ md.attachment = "absent" ->
         [pc |-> "raised", made |-> {<<m, 1>>}, queued |-> {}]
    [] md.ndisc > 0 /\ md.attachment = "flag" ->
         [pc |-> "returned", made |-> { <<m, d>> : d \in 1..md.ndisc },
          queued |-> {}]
    [] OTHER ->
         [pc |-> "returned", made |-> { <<m, d>> : d \in 1..md.ndisc },
          queued |-> { <<m, d, a>> : d \in 1..md.ndisc, a \in 1..md.natt }]

\* lines 298-316 without the test of lines 302-303: the exception payload
\* has no "discussions" key and response_json["discussions"] raises
\* KeyError.
forum_branch_NoExceptionTest(m, md) ==
  CASE md.response = "notok" -> [pc |-> "returned", made |-> {}, queued |-> {}]
    [] md.response = "exception" ->
         [pc |-> "raised", made |-> {}, queued |-> {}]
    [] OTHER -> discussions_loop(m, md)

\* lines 298-316: what queue_module does with the forum's answer.
forum_branch(m, md) ==
  CASE md.response = "notok" -> [pc |-> "returned", made |-> {}, queued |-> {}]
    [] md.response = "exception" ->
         [pc |-> "returned", made |-> {}, queued |-> {}]
    [] OTHER -> discussions_loop(m, md)

Apply(m, r) ==
  [walk EXCEPT !.mod[m] = r.pc,
               !.made = @ \cup r.made,
               !.queued = @ \cup r.queued]

\* queue_module, lines 276-297, from its start to its first await: the
\* module's directory; a resource or folder runs to its end, a forum
\* issues its GET (its permit is part of FetchSpec), any other module
\* returns.
ModuleRun(m) ==
  /\ walk.sec = "gather"
  /\ walk.mod[m] = "new"
  /\ LET md == walk.section.modules[m]
         r == CASE md.modname \in {"resource", "folder"} -> resource_branch(m, md)
                [] md.modname = "forum" ->
                     [pc |-> "get", made |-> {}, queued |-> {}]
                [] OTHER -> [pc |-> "returned", made |-> {}, queued |-> {}]
     IN walk' = Apply(m, [r EXCEPT !.made = @ \cup {<<m>>}])
  /\ UNCHANGED <<mode, fetch, san, pipeline>>

\* queue_module, lines 297-317: the forum's GET has answered.
ForumAnswer(m) ==
  /\ walk.sec = "gather"
  /\ walk.mod[m] = "get"
  /\ walk' = Apply(m, forum_branch(m, walk.section.modules[m]))
  /\ UNCHANGED <<mode, fetch, san, pipeline>>

\* lines 269-271: gather returns when every queue_module has returned.
SectionReturns ==
  /\ walk.sec = "gather"
  /\ \A m \in ModuleIds : walk.mod[m] = "returned"
  /\ walk' = [walk EXCEPT !.sec = "returned"]
  /\ UNCHANGED <<mode, fetch, san, pipeline>>

\* lines 269-271: gather raises the first exception of a queue_module, and
\* so do queue_course_section, process, queue_enroled_courses and main.
SectionRaises ==
  /\ walk.sec = "gather"
  /\ \E m \in ModuleIds : walk.mod[m] = "raised"
  /\ walk' = [walk EXCEPT !.sec = "raised"]
  /\ UNCHANGED <<mode, fetch, san, pipeline>>

WalkNext ==
  \/ SectionStart
  \/ \E m \in ModuleIds : ModuleRun(m)
  \/ \E m \in ModuleIds : ForumAnswer(m)
  \/ SectionReturns
  \/ SectionRaises

WalkSpec == WalkInit /\ [][WalkNext]_vars

\* What the walk made for module m: the directories of its discussions and
\* the candidates it enqueued.
DiscussionDirs(m) == { d \in walk.made : Len(d) = 2 /\ d[1] = m }

ModuleTasks(m) == { q \in walk.queued : q[1] = m }

\* C13: a resource or folder module that has no "contents" field is
\* skipped without error: queue_module does not raise for it and enqueues
\* nothing for it.
C13_NoContentsSkipped ==
  \A m \in ModuleIds :
    (/\ walk.section.hasModules
     /\ walk.section.modules[m].modname \in {"resource", "folder"}
     /\ walk.section.modules[m].contents = -1)
    => /\ walk.mod[m] # "raised"
       /\ ModuleTasks(m) = {}

\* C14: whatever the section's summary holds (nothing, HTML without
\* anchors, an anchor without href, an off-origin link), when
\* queue_course_section has returned for a section with a modules list
\* every module has been walked: its directory is created and each of its
\* contents is a candidate.
C14_EveryModuleWalked ==
  (walk.sec = "returned" /\ walk.section.hasModules) =>
    \A m \in ModuleIds :
      /\ walk.mod[m] = "returned"
      /\ <<m>> \in walk.made
      /\ walk.section.modules[m].modname \in {"resource", "folder"}
           => \A c \in 1..walk.section.modules[m].contents :
                <<m, 0, c>> \in walk.queued

\* C15: for a forum whose discussions request is answered without an
\* exception payload, queue_module ends with one directory per discussion
\* and one candidate per attachment of every discussion.
C15_OneTaskPerAttachment ==
  \A m \in ModuleIds :
    (/\ walk.section.hasModules
     /\ walk.section.modules[m].modname = "forum"
     /\ walk.section.modules[m].response = "ok"
     /\ walk.mod[m] \in {"returned", "raised"})
    => /\ walk.mod[m] = "returned"
       /\ DiscussionDirs(m) =
            { <<m, d>> : d \in 1..walk.section.modules[m].ndisc }
       /\ ModuleTasks(m) =
            { <<m, d, a>> : d \in 1..walk.section.modules[m].ndisc,
                            a \in 1..walk.section.modules[m].natt }

\* C16: a forum whose discussions request answers with an exception
\* payload ends queue_module normally, with no discussion directory and
\* no candidate, and the section's gather does not raise because of it.
C16_ForumExceptionYieldsNothing ==
  \A m \in ModuleIds :
    (/\ walk.section.hasModules
     /\ walk.section.modules[m].modname = "forum"
     /\ walk.section.modules[m].response = "exception"
     /\ walk.mod[m] \notin {"new", "get"})
    => /\ walk.mod[m] = "returned"
       /\ DiscussionDirs(m) = {}
       /\ ModuleTasks(m) = {}
       /\ walk.sec = "raised" =>
            \E n \in ModuleIds \ {m} : walk.mod[n] = "raised"

\* A section whose walk has returned, with a forum answered by an
\* exception payload and a sibling module whose contents were enqueued.
C16_Witness ==
  /\ walk.sec = "returned"
  /\ walk.section.hasModules
  /\ \E m, n \in ModuleIds :
       /\ walk.section.modules[m].modname = "forum"
       /\ walk.section.modules[m].response = "exception"
       /\ walk.mod[m] = "returned"
       /\ <<m>> \in walk.made
       /\ ModuleTasks(m) = {}
       /\ walk.section.modules[n].modname = "resource"
       /\ ModuleTasks(n) # {}

(***************************************************************************)
(* Names: removeDisallowedFilenameChars and the name of every directory    *)
(* and file the program derives from a name the server sent.  A string is  *)
(* a sequence of characters.                                               *)
(***************************************************************************)
\* Longest name the server sends.
MaxLen == 3

\* The [:50] of lines 241, 276 and 306.
TruncLen == 50

\* The characters of the server's names: a letter, the period, the two
\* separators, the space, and two characters outside ASCII: U+00E9 (e with
\* acute) and U+2025 (two dot leader).
Chars == {"a", ".", "/", "\\", " ", "e_acute", "two_dot_leader"}

Strings == UNION { [1..k -> Chars] : k \in 0..MaxLen }

upper_letters ==
  <<"A", "B", "C", "D", "E", "F", "G", "H", "I", "J", "K", "L", "M",
    "N", "O", "P", "Q", "R", "S", "T", "U", "V", "W", "X", "Y", "Z">>

lower_letters ==
  <<"a", "b", "c", "d", "e", "f", "g", "h", "i", "j", "k", "l", "m",
    "n", "o", "p", "q", "r", "s", "t", "u", "v", "w", "x", "y", "z">>

ascii_letters ==
  { lower_letters[i] : i \in DOMAIN lower_letters }
  \cup { upper_letters[i] : i \in DOMAIN upper_letters }

digits == {"0", "1", "2", "3", "4", "5", "6", "7", "8", "9"}

\* line 23
VALID_FILENAME_CHARS ==
  {"-", "_", ".", "(", ")", " "} \cup ascii_letters \cup digits

\* unicodedata.normalize('NFKD', c) for one character: U+00E9 decomposes
\* into e and U+0301 (combining acute), U+2025 into two periods, an ASCII
\* character into itself.
NFKD_char(c) ==
  CASE c = "e_acute" -> <<"e", "combining_acute">>
    [] c = "two_dot_leader" -> <<".", ".">>
    [] OTHER -> <<c>>

RECURSIVE NFKD(_)
NFKD(s) == IF s = <<>> THEN <<>> ELSE NFKD_char(Head(s)) \o NFKD(Tail(s))

IsASCII(c) == c \notin {"e_acute", "two_dot_leader", "combining_acute"}

IsValid(c) == c \in VALID_FILENAME_CHARS

\* .encode('ASCII', 'ignore')
encode_ASCII_ignore(s) == SelectSeq(s, IsASCII)

\* lines 537-540 without the filter of line 540.
removeDisallowedFilenameChars_AsciiOnly(filename) ==
  encode_ASCII_ignore(NFKD(filename))

\* lines 537-540
removeDisallowedFilenameChars(filename) ==
  SelectSeq(encode_ASCII_ignore(NFKD(filename)), IsValid)

\* str.lower()
lower_char(c) ==
  IF \E i \in DOMAIN upper_letters : upper_letters[i] = c
    THEN lower_letters[CHOOSE i \in DOMAIN upper_letters : upper_letters[i] = c]
    ELSE c

lower(s) == [i \in DOMAIN s |-> lower_char(s[i])]

\* str.strip(): the whitespace of the model is the space.
strip(s) ==
  LET keep == { i \in DOMAIN s : s[i] # " " } IN
  IF keep = {} THEN <<>>
  ELSE SubSeq(s, CHOOSE i \in keep : \A k \in keep : i <= k,
                 CHOOSE i \in keep : \A k \in keep : i >= k)

\* s[:n]
SliceTo(s, n) == SubSeq(s, 1, IF n < Len(s) THEN n ELSE Len(s))

\* s.rfind("."): the highest index (from 0) of a period, -1 when there is
\* none.
rfind(s) ==
  LET at == { i \in DOMAIN s : s[i] = "." } IN
  IF at = {} THEN -1 ELSE (CHOOSE i \in at : \A k \in at : i >= k) - 1

\* s[p:]: a negative p counts from the end.
SliceFrom(s, p) ==
  LET start == IF p >= 0 THEN (IF p < Len(s) THEN p ELSE Len(s))
               ELSE (IF Len(s) + p > 0 THEN Len(s) + p ELSE 0)
  IN SubSeq(s, start + 1, Len(s))

HANDOUT == <<"H", "A", "N", "D", "O", "U", "T">>

\* The literal of line 286.
handout == <<"h", "a", "n", "d", "o", "u", "t">>

\* module["name"] of the module a content belongs to.
ModuleNames ==
  { <<"H", "a", "n", "d", "o", "u", "t">>, HANDOUT, <<"n", "o", "t", "e", "s">> }

\* match[1] of COURSE_NAME_REGEX (line 32): one or more of the characters
\* of [\w\d \-\/'&,], which holds letters of any script, the space and the
\* slash, and neither the period nor the backslash.
CourseNames ==
  { s \in Strings :
      /\ s # <<>>
      /\ \A i \in DOMAIN s : s[i] \in {"a", "e_acute", " ", "/"} }

\* Which name of the tree the server's string is.
Roles == {"course", "section", "module", "discussion", "content",
          "attachment", "served"}

\* One name as the server sent it (x), and for a content the name of its
\* module; out is the path component the program makes of it.
SanInit ==
  /\ PipelineIdle
  /\ mode = "full"
  /\ fetch = "idle"
  /\ walk = "idle"
  /\ san \in { [role |-> r, module |-> <<>>, x |-> s, pc |-> "input",
                 out |-> <<>>] :
                 r \in Roles \ {"content", "course"}, s \in Strings }
         \cup { [role |-> "course", module |-> <<>>, x |-> s, pc |-> "input",
                 out |-> <<>>] : s \in CourseNames }
         \cup { [role |-> "content", module |-> m, x |-> s, pc |-> "input",
                 out |-> <<>>] : m \in ModuleNames, s \in Strings }

\* line 206: course_name
NameCourse ==
  /\ san.pc = "input"
  /\ san.role = "course"
  /\ san' = [san EXCEPT !.pc = "named",
                        !.out = removeDisallowedFilenameChars(san.x)]
  /\ UNCHANGED <<mode, fetch, walk, pipeline>>

\* line 241: course_section_name
NameSection ==
  /\ san.pc = "input"
  /\ san.role = "section"
  /\ san' = [san EXCEPT
               !.pc = "named",
               !.out = strip(SliceTo(removeDisallowedFilenameChars(san.x),
                                     TruncLen))]
  /\ UNCHANGED <<mode, fetch, walk, pipeline>>

\* line 276: module_name
NameModule ==
  /\ san.pc = "input"
  /\ san.role = "module"
  /\ san' = [san EXCEPT
               !.pc = "named",
               !.out = strip(SliceTo(removeDisallowedFilenameChars(san.x),
                                     TruncLen))]
  /\ UNCHANGED <<mode, fetch, walk, pipeline>>

\* line 306: forum_discussion_name
NameDiscussion ==
  /\ san.pc = "input"
  /\ san.role = "discussion"
  /\ san' = [san EXCEPT
               !.pc = "named",
               !.out = removeDisallowedFilenameChars(
                         strip(SliceTo(san.x, TruncLen)))]
  /\ UNCHANGED <<mode, fetch, walk, pipeline>>

\* lines 286-290: file_name of a content of a resource or folder module
NameContent ==
  /\ san.pc = "input"
  /\ san.role = "content"
  /\ san' = [san EXCEPT
               !.pc = "named",
               !.out = IF lower(san.module) = handout
                         THEN HANDOUT \o SliceFrom(san.x, rfind(san.x))
                         ELSE removeDisallowedFilenameChars(san.x)]
  /\ UNCHANGED <<mode, fetch, walk, pipeline>>

\* line 313: file_name of an attachment
NameAttachment ==
  /\ san.pc = "input"
  /\ san.role = "attachment"
  /\ san' = [san EXCEPT !.pc = "named",
                        !.out = removeDisallowedFilenameChars(san.x)]
  /\ UNCHANGED <<mode, fetch, walk, pipeline>>

\* lines 484-490: download_file, for a task queued without a file name,
\* takes the file name of the content-disposition header as it is.
NameServed ==
  /\ san.pc = "input"
  /\ san.role = "served"
  /\ san' = [san EXCEPT !.pc = "named", !.out = san.x]
  /\ UNCHANGED <<mode, fetch, walk, pipeline>>

SanNext ==
  \/ NameCourse
  \/ NameSection
  \/ NameModule
  \/ NameDiscussion
  \/ NameContent
  \/ NameAttachment
  \/ NameServed

SanSpec == SanInit /\ [][SanNext]_vars

\* C12: no path separator and no traversal component survives into a name
\* component of a created directory or written file: whatever name the
\* server sent for a course, section, module, discussion, content,
\* attachment or content-disposition header, the component made of it
\* holds no '/' and no '\' and is not '..'.
C12_NoSeparatorOrTraversal ==
  san.pc = "named" =>
    /\ \A i \in DOMAIN san.out : san.out[i] \notin {"/", "\\"}
    /\ san.out # <<".", ".">>

\* The extension as the specification words it: the suffix from the last
\* period on, empty when the name has no period.
SuffixFromLastPeriod(x) ==
  IF \E i \in DOMAIN x : x[i] = "."
    THEN SubSeq(x, rfind(x) + 1, Len(x))
    ELSE <<>>

\* C17: the file name of a content of a module whose name is "handout" in
\* any case is HANDOUT followed by the original extension (the suffix from
\* the last period, empty when there is no period); of any other module's
\* content it is the sanitized original name.
C17_HandoutFileName ==
  (san.pc = "named" /\ san.role = "content") =>
    san.out = IF lower(san.module) = handout
                THEN HANDOUT \o SuffixFromLastPeriod(san.x)
                ELSE removeDisallowedFilenameChars(san.x)

\* r is a subsequence of s: its elements occur in s in the same order.
RECURSIVE IsSubsequence(_, _)
IsSubsequence(r, s) ==
  IF r = <<>> THEN TRUE
  ELSE IF s = <<>> THEN FALSE
  ELSE IF Head(r) = Head(s) THEN IsSubsequence(Tail(r), Tail(s))
  ELSE IsSubsequence(r, Tail(s))

\* C20: the sanitizer is idempotent and order-preserving: sanitizing its
\* result changes nothing, and the result is the subsequence of the
\* normalized characters of the input that are ASCII letters, digits, dash,
\* underscore, period, space or parentheses, all of them and in their
\* order.
C20_SanitizerIdempotent ==
  (san.pc = "named" /\ san.role = "attachment") =>
    /\ removeDisallowedFilenameChars(san.out) = san.out
    /\ IsSubsequence(san.out, NFKD(san.x))
    /\ \A i \in DOMAIN san.out : san.out[i] \in VALID_FILENAME_CHARS
    /\ Len(san.out) =
         Cardinality({ i \in DOMAIN NFKD(san.x) :
                         NFKD(san.x)[i] \in VALID_FILENAME_CHARS })

\* A sanitized name whose input held a character that decomposes, a
\* separator that is dropped, and a character that is kept.
C20_Witness ==
  /\ san.pc = "named"
  /\ san.role = "attachment"
  /\ \E i, j, k \in DOMAIN san.x :
       /\ san.x[i] = "e_acute"
       /\ san.x[j] = "/"
       /\ san.x[k] = "."
  /\ Len(san.out) = 2

\* The event loop runs a coroutine that can run, and a request that was
\* issued is answered or fails: some enabled step of the walk is taken.
FairFetchSpec == FetchSpec /\ WF_vars(FetchNext)

\* The coroutines that hold a permit: those between the acquire and the
\* end of their GET.
PermitHolders ==
  Cardinality({ c \in Courses : fetch.course[c] = "get" /\ mode = "full" })
  + Cardinality({ c \in Courses : fetch.forum[c] = "get" })

\* process has ended for every course: queue_enroled_courses' gather
\* (line 234) has every result, or an exception to raise.
WalkEnded == \A c \in Courses : fetch.course[c] \in {"done", "raised"}

\* C21: the walk does not deadlock on the semaphore the course-contents
\* and the forum fetches share: a permit is held only while a GET is
\* open, never by a coroutine that waits for its children, and with
\* requests that are always answered every process coroutine ends, all of
\* them normally unless a request failed.
C21_DiscoveryTerminates ==
  /\ [](mode = "full" =>
          /\ fetch.sem + PermitHolders = SEMAPHORE_COUNT
          /\ \A c \in Courses :
               fetch.forum[c] \in {"start", "get"} => fetch.course[c] = "gather")
  /\ <>(mode = "full" => WalkEnded)
  /\ <>(mode = "full" =>
          \/ \E c \in Courses : fetch.course[c] = "raised"
          \/ \A c \in Courses :
               /\ fetch.course[c] = "done"
               /\ fetch.hasForum[c] => fetch.forum[c] = "done")

\* More courses than permits, a forum in every course, and the walk over
\* with every course and every forum fetched.
C21_Witness ==
  /\ mode = "full"
  /\ NumCourses > SEMAPHORE_COUNT
  /\ \A c \in Courses :
       /\ fetch.hasForum[c]
       /\ fetch.course[c] = "done"
       /\ fetch.forum[c] = "done"
  /\ fetch.sem = SEMAPHORE_COUNT

\* C22: a download whose response status is not OK is skipped: the step
\* download_file takes on such a response creates and writes no file at the
\* destination and ends the task with False, so that the body of an error
\* response is never stored.
C22_NotOkSkipped ==
  [][\A t \in TaskIds : \A cd, cl, perm \in BOOLEAN :
       Respond(t, FALSE, cd, cl, perm)
         => (fs' = fs /\ co'[t].pc = "done" /\ co'[t].ret = "False")]_vars

====
